---- MODULE Spec2Model ----
(***************************************************************************)
(* Model of rpi/capture.py: a bracketed still-image capture session.      *)
(* The script is one sequential procedure; every statement that touches   *)
(* the camera or the filesystem is one action, ordered by pc.  Every call *)
(* on the camera is appended to `calls`.  A call that raises unwinds the   *)
(* `with picamera.PiCamera(...)` block, which closes the camera.           *)
(***************************************************************************)
EXTENDS Integers, Sequences, FiniteSets, TLC

\* ---------------------------------------------------------------- bounds
MaxIsoLen == 2
MaxShutterLen == 2

\* ------------------------------------------------------- input domains
IsoValues == {100, 200, 1002}
ShutterValues == {1000, 2000, 21000}
\* sys.argv: the script alone, with one argument, with two arguments
ArgvValues == {<<"capture.py">>, <<"capture.py", "test">>,
               <<"capture.py", "a", "b">>}
\* AWB gain pairs the device may hold, each gain a fraction <<num, den>>
GainValues == {<< <<3, 2>>, <<7, 4>> >>, << <<1, 1>>, <<2, 1>> >>}
\* datetime.datetime.now(): <<year, month, day, hour, minute, second>>
NowValues == {<<2019, 7, 4, 9, 5, 30>>}

RECURSIVE SeqsUpTo(_, _)
SeqsUpTo(S, n) ==
    IF n = 0 THEN {<<>>}
    ELSE LET shorter == SeqsUpTo(S, n - 1)
         IN shorter \cup {Append(s, v) : s \in shorter, v \in S}

\* ----------------------------------------------------- module constants
name_default == "raw"
folder == "capture"
output_format == "jpg"
settle_seconds == 2

\* ------------------------------------------------------ text formatting
DigitStr(d) ==
    CASE d = 0 -> "0" [] d = 1 -> "1" [] d = 2 -> "2" [] d = 3 -> "3"
      [] d = 4 -> "4" [] d = 5 -> "5" [] d = 6 -> "6" [] d = 7 -> "7"
      [] d = 8 -> "8" [] d = 9 -> "9"

RECURSIVE NatStr(_)
NatStr(n) == IF n < 10 THEN DigitStr(n)
             ELSE NatStr(n \div 10) \o DigitStr(n % 10)

\* '{}'.format(n) for an int
IntStr(n) == IF n < 0 THEN "-" \o NatStr(0 - n) ELSE NatStr(n)

\* strftime's zero-padded fields (%m, %d, %H, %M, %S)
Pad2(n) == IF n < 10 THEN "0" \o NatStr(n) ELSE NatStr(n)

strftime(t) ==
    NatStr(t[1]) \o "-" \o Pad2(t[2]) \o "-" \o Pad2(t[3]) \o "-" \o
    Pad2(t[4]) \o "-" \o Pad2(t[5]) \o "-" \o Pad2(t[6])

\* os.path.join of a directory and a relative component
path_join(dir, f) == dir \o "/" \o f

\* '{}'.format(list of int)
RECURSIVE ListBody(_)
ListBody(s) ==
    IF s = <<>> THEN ""
    ELSE IF Len(s) = 1 THEN IntStr(s[1])
    ELSE IntStr(s[1]) \o ", " \o ListBody(Tail(s))

ListStr(s) == "[" \o ListBody(s) \o "]"

\* '{}'.format(pair of Fraction)
FractionRepr(q) == "Fraction(" \o IntStr(q[1]) \o ", " \o IntStr(q[2]) \o ")"

GainsStr(gp) == "(" \o FractionRepr(gp[1]) \o ", " \o FractionRepr(gp[2]) \o ")"

\* variant: the two settings in the other order
filename_swapped(nm, iso, shutter_speed) ==
    nm \o "-" \o IntStr(shutter_speed) \o "-" \o IntStr(iso) \o "." \o
    output_format

\* variant: the settings run together without separators
filename_nosep(nm, iso, shutter_speed) ==
    nm \o IntStr(iso) \o IntStr(shutter_speed) \o "." \o output_format

filename(nm, iso, shutter_speed) ==
    nm \o "-" \o IntStr(iso) \o "-" \o IntStr(shutter_speed) \o "." \o
    output_format

\* variant: second list outer, first list inner
product_inner_first(a, b) ==
    [k \in 1..(Len(a) * Len(b)) |->
       <<a[((k - 1) % Len(a)) + 1], b[((k - 1) \div Len(a)) + 1]>>]

\* it.product(a, b): first list outer, second list inner
RECURSIVE product(_, _)
product(a, b) ==
    IF a = <<>> THEN <<>>
    ELSE [j \in 1..Len(b) |-> <<a[1], b[j]>>] \o product(Tail(a), b)

\* ----------------------------------------------------------------- state
VARIABLES argv, iso_rng, shutter_rng, now, name, path, pc, camera, g,
          idx, p, files, params_file, calls

vars == <<argv, iso_rng, shutter_rng, now, name, path, pc, camera, g,
          idx, p, files, params_file, calls>>

config == <<argv, iso_rng, shutter_rng, now>>

NoGains == << <<0, 1>>, <<0, 1>> >>

\* one call on the camera: what was called, its argument, whether it returned
Call(op, val, str, gains, ok) ==
    [op |-> op, val |-> val, str |-> str, gains |-> gains, ok |-> ok]

Init ==
    /\ argv \in ArgvValues
    /\ iso_rng \in SeqsUpTo(IsoValues, MaxIsoLen)
    /\ shutter_rng \in SeqsUpTo(ShutterValues, MaxShutterLen)
    /\ now \in NowValues
    /\ name = name_default
    /\ path = ""
    /\ pc = "args"
    /\ camera = [open |-> FALSE, preview |-> FALSE, iso |-> 0,
                 shutter_speed |-> 0, exposure_mode |-> "auto",
                 awb_mode |-> "auto", awb_gains |-> NoGains]
    /\ g = NoGains
    /\ idx = -1
    /\ p = <<0, 0>>
    /\ files = {}
    /\ params_file = <<>>
    /\ calls = <<>>

\* An exception raised by a call made before the camera is opened
RaiseOutside ==
    /\ pc' = "aborted"
    /\ UNCHANGED <<config, name, path, camera, g, idx, p, files,
                   params_file, calls>>

\* variant: the exception ends the process with the camera left open
RaiseInside_noclose(failed) ==
    /\ pc' = "aborted"
    /\ calls' = calls \o failed
    /\ UNCHANGED <<config, name, path, camera, g, idx, p, files, params_file>>

\* An exception raised inside the with block: PiCamera.__exit__ closes
\* the camera, then the exception ends the process.
RaiseInside(failed) ==
    /\ pc' = "aborted"
    /\ calls' = (calls \o failed) \o <<Call("close", 0, "", NoGains, TRUE)>>
    /\ camera' = [camera EXCEPT !.open = FALSE, !.preview = FALSE]
    /\ UNCHANGED <<config, name, path, g, idx, p, files, params_file>>

\* A camera call that returns: logged, camera and pc updated
Returns(call, cam, next) ==
    /\ calls' = Append(calls, call)
    /\ camera' = cam
    /\ pc' = next

ParseArgs ==
    /\ pc = "args"
    /\ name' = IF Len(argv) = 2 THEN argv[2] ELSE name
    /\ pc' = "makedirs"
    /\ UNCHANGED <<config, path, camera, g, idx, p, files, params_file,
                   calls>>

MakeDirs ==
    /\ pc = "makedirs"
    /\ \E ok \in BOOLEAN :
         IF ok
         THEN /\ path' = path_join(folder, strftime(now))
              /\ pc' = "open"
              /\ UNCHANGED <<config, name, camera, g, idx, p, files,
                             params_file, calls>>
         ELSE RaiseOutside

OpenCamera ==
    /\ pc = "open"
    /\ \E ok \in BOOLEAN, g0 \in GainValues :
         IF ok
         THEN /\ Returns(Call("open", 0, "", NoGains, TRUE),
                         [camera EXCEPT !.open = TRUE, !.awb_gains = g0],
                         "start_preview")
              /\ UNCHANGED <<config, name, path, g, idx, p, files,
                             params_file>>
         ELSE RaiseOutside

StartPreview ==
    /\ pc = "start_preview"
    /\ \E ok \in BOOLEAN :
         IF ok
         THEN Returns(Call("start_preview", 0, "", NoGains, TRUE),
                      [camera EXCEPT !.preview = TRUE], "cal_iso")
              /\ UNCHANGED <<config, name, path, g, idx, p, files,
                             params_file>>
         ELSE RaiseInside(<<Call("start_preview", 0, "", NoGains, FALSE)>>)

\* camera.iso = iso_rng[0]; an empty list raises IndexError before the call
CalSetIso ==
    /\ pc = "cal_iso"
    /\ IF iso_rng = <<>>
       THEN RaiseInside(<<>>)
       ELSE \E ok \in BOOLEAN :
              IF ok
              THEN Returns(Call("iso", iso_rng[1], "", NoGains, TRUE),
                           [camera EXCEPT !.iso = iso_rng[1]], "cal_sleep")
                   /\ UNCHANGED <<config, name, path, g, idx, p, files,
                                  params_file>>
              ELSE RaiseInside(<<Call("iso", iso_rng[1], "", NoGains, FALSE)>>)

\* sleep(2): auto white balance is still running and may move the gains
CalSleep ==
    /\ pc = "cal_sleep"
    /\ \E g1 \in GainValues :
         Returns(Call("sleep", settle_seconds, "", NoGains, TRUE),
                 [camera EXCEPT !.awb_gains = g1], "cal_shutter")
    /\ UNCHANGED <<config, name, path, g, idx, p, files, params_file>>

CalSetShutter ==
    /\ pc = "cal_shutter"
    /\ IF shutter_rng = <<>>
       THEN RaiseInside(<<>>)
       ELSE \E ok \in BOOLEAN :
              IF ok
              THEN Returns(Call("shutter_speed", shutter_rng[1], "", NoGains,
                                TRUE),
                           [camera EXCEPT !.shutter_speed = shutter_rng[1]],
                           "cal_exposure")
                   /\ UNCHANGED <<config, name, path, g, idx, p, files,
                                  params_file>>
              ELSE RaiseInside(<<Call("shutter_speed", shutter_rng[1], "",
                                      NoGains, FALSE)>>)

CalExposureOff ==
    /\ pc = "cal_exposure"
    /\ \E ok \in BOOLEAN :
         IF ok
         THEN Returns(Call("exposure_mode", 0, "off", NoGains, TRUE),
                      [camera EXCEPT !.exposure_mode = "off"], "cal_read_gains")
              /\ UNCHANGED <<config, name, path, g, idx, p, files,
                             params_file>>
         ELSE RaiseInside(<<Call("exposure_mode", 0, "off", NoGains, FALSE)>>)

\* g = camera.awb_gains
CalReadGains ==
    /\ pc = "cal_read_gains"
    /\ \E ok \in BOOLEAN :
         IF ok
         THEN /\ Returns(Call("get_awb_gains", 0, "", camera.awb_gains, TRUE),
                         camera, "cal_awb")
              /\ g' = camera.awb_gains
              /\ UNCHANGED <<config, name, path, idx, p, files, params_file>>
         ELSE RaiseInside(<<Call("get_awb_gains", 0, "", NoGains, FALSE)>>)

\* camera.awb_mode = 'off': the device may reset its gains on the switch
CalAwbOff ==
    /\ pc = "cal_awb"
    /\ \E ok \in BOOLEAN, g1 \in GainValues :
         IF ok
         THEN Returns(Call("awb_mode", 0, "off", NoGains, TRUE),
                      [camera EXCEPT !.awb_mode = "off", !.awb_gains = g1],
                      "cal_set_gains")
              /\ UNCHANGED <<config, name, path, g, idx, p, files,
                             params_file>>
         ELSE RaiseInside(<<Call("awb_mode", 0, "off", NoGains, FALSE)>>)

\* variant: writes back the gains the camera holds after the mode switch
CalSetGains_current ==
    /\ pc = "cal_set_gains"
    /\ \E ok \in BOOLEAN :
         IF ok
         THEN Returns(Call("awb_gains", 0, "", camera.awb_gains, TRUE),
                      camera, "loop")
              /\ UNCHANGED <<config, name, path, g, idx, p, files,
                             params_file>>
         ELSE RaiseInside(<<Call("awb_gains", 0, "", camera.awb_gains,
                                 FALSE)>>)

\* camera.awb_gains = g
CalSetGains ==
    /\ pc = "cal_set_gains"
    /\ \E ok \in BOOLEAN :
         IF ok
         THEN Returns(Call("awb_gains", 0, "", g, TRUE),
                      [camera EXCEPT !.awb_gains = g], "loop")
              /\ UNCHANGED <<config, name, path, g, idx, p, files,
                             params_file>>
         ELSE RaiseInside(<<Call("awb_gains", 0, "", g, FALSE)>>)

\* variant: the loop stops one pair early
LoopHead_early ==
    /\ pc = "loop"
    /\ IF idx + 2 < Len(product(iso_rng, shutter_rng))
       THEN /\ idx' = idx + 1
            /\ p' = product(iso_rng, shutter_rng)[idx + 2]
            /\ pc' = "loop_iso"
       ELSE /\ pc' = "stop_preview"
            /\ UNCHANGED <<idx, p>>
    /\ UNCHANGED <<config, name, path, camera, g, files, params_file, calls>>

\* for idx, p in enumerate(it.product(iso_rng, shutter_rng))
LoopHead ==
    /\ pc = "loop"
    /\ IF idx + 1 < Len(product(iso_rng, shutter_rng))
       THEN /\ idx' = idx + 1
            /\ p' = product(iso_rng, shutter_rng)[idx + 2]
            /\ pc' = "loop_iso"
       ELSE /\ pc' = "stop_preview"
            /\ UNCHANGED <<idx, p>>
    /\ UNCHANGED <<config, name, path, camera, g, files, params_file, calls>>

\* camera.iso = iso
LoopSetIso ==
    /\ pc = "loop_iso"
    /\ \E ok \in BOOLEAN :
         IF ok
         THEN Returns(Call("iso", p[1], "", NoGains, TRUE),
                      [camera EXCEPT !.iso = p[1]], "loop_shutter")
              /\ UNCHANGED <<config, name, path, g, idx, p, files,
                             params_file>>
         ELSE RaiseInside(<<Call("iso", p[1], "", NoGains, FALSE)>>)

\* variant: the first pair's shutter speed, set in calibration, is not rewritten
LoopSetShutter_skipfirst ==
    /\ pc = "loop_shutter"
    /\ IF idx = 0
       THEN /\ pc' = "loop_capture"
            /\ UNCHANGED <<config, name, path, camera, g, idx, p, files,
                           params_file, calls>>
       ELSE \E ok \in BOOLEAN :
              IF ok
              THEN Returns(Call("shutter_speed", p[2], "", NoGains, TRUE),
                           [camera EXCEPT !.shutter_speed = p[2]],
                           "loop_capture")
                   /\ UNCHANGED <<config, name, path, g, idx, p, files,
                                  params_file>>
              ELSE RaiseInside(<<Call("shutter_speed", p[2], "", NoGains,
                                      FALSE)>>)

\* camera.shutter_speed = shutter_speed
LoopSetShutter ==
    /\ pc = "loop_shutter"
    /\ \E ok \in BOOLEAN :
         IF ok
         THEN Returns(Call("shutter_speed", p[2], "", NoGains, TRUE),
                      [camera EXCEPT !.shutter_speed = p[2]], "loop_capture")
              /\ UNCHANGED <<config, name, path, g, idx, p, files,
                             params_file>>
         ELSE RaiseInside(<<Call("shutter_speed", p[2], "", NoGains, FALSE)>>)

\* variant: a capture that raises is skipped and the loop goes on
LoopCapture_skip ==
    /\ pc = "loop_capture"
    /\ LET dest == path_join(path, filename(name, p[1], p[2]))
       IN \E ok \in BOOLEAN :
            /\ Returns(Call("capture", 0, dest, NoGains, ok), camera, "loop")
            /\ files' = IF ok THEN files \cup {dest} ELSE files
            /\ UNCHANGED <<config, name, path, g, idx, p, params_file>>

\* camera.capture(os.path.join(path, filename(name, iso, shutter_speed)))
LoopCapture ==
    /\ pc = "loop_capture"
    /\ LET dest == path_join(path, filename(name, p[1], p[2]))
       IN \E ok \in BOOLEAN :
            IF ok
            THEN /\ Returns(Call("capture", 0, dest, NoGains, TRUE), camera,
                            "loop")
                 /\ files' = files \cup {dest}
                 /\ UNCHANGED <<config, name, path, g, idx, p, params_file>>
            ELSE RaiseInside(<<Call("capture", 0, dest, NoGains, FALSE)>>)

\* variant: the with block ends at the stop of the preview
StopPreview_release ==
    /\ pc = "stop_preview"
    /\ \E ok \in BOOLEAN :
         IF ok
         THEN /\ calls' = calls \o
                   << Call("stop_preview", 0, "", NoGains, TRUE),
                      Call("close", 0, "", NoGains, TRUE) >>
              /\ camera' = [camera EXCEPT !.preview = FALSE, !.open = FALSE]
              /\ pc' = "manifest"
              /\ UNCHANGED <<config, name, path, g, idx, p, files,
                             params_file>>
         ELSE RaiseInside(<<Call("stop_preview", 0, "", NoGains, FALSE)>>)

StopPreview ==
    /\ pc = "stop_preview"
    /\ \E ok \in BOOLEAN :
         IF ok
         THEN Returns(Call("stop_preview", 0, "", NoGains, TRUE),
                      [camera EXCEPT !.preview = FALSE], "manifest")
              /\ UNCHANGED <<config, name, path, g, idx, p, files,
                             params_file>>
         ELSE RaiseInside(<<Call("stop_preview", 0, "", NoGains, FALSE)>>)

\* variant: the shutter list is written on the ISO line as well
WriteManifest_swapped ==
    /\ pc = "manifest"
    /\ \E ok \in BOOLEAN :
         IF ok
         THEN /\ params_file' =
                   << "Exposure mode: " \o camera.exposure_mode,
                      "AWB mode: " \o camera.awb_mode,
                      "Gains: " \o GainsStr(g),
                      "ISOs: " \o ListStr(shutter_rng),
                      "Shutter speeds: " \o ListStr(shutter_rng) >>
              /\ files' = files \cup {path_join(path, "params.txt")}
              /\ calls' = calls \o
                   << Call("get_exposure_mode", 0, camera.exposure_mode,
                           NoGains, TRUE),
                      Call("get_awb_mode", 0, camera.awb_mode, NoGains, TRUE),
                      Call("write_manifest", 0,
                           path_join(path, "params.txt"), NoGains, TRUE) >>
              /\ pc' = "exit_with"
              /\ UNCHANGED <<config, name, path, camera, g, idx, p>>
         ELSE RaiseInside(<<Call("write_manifest", 0,
                                 path_join(path, "params.txt"), NoGains,
                                 FALSE)>>)

\* with open(os.path.join(path, 'params.txt'), 'w') as params_file: ...
\* The exposure and AWB modes are read from the camera, the gains from g.
WriteManifest ==
    /\ pc = "manifest"
    /\ \E ok \in BOOLEAN :
         IF ok
         THEN /\ params_file' =
                   << "Exposure mode: " \o camera.exposure_mode,
                      "AWB mode: " \o camera.awb_mode,
                      "Gains: " \o GainsStr(g),
                      "ISOs: " \o ListStr(iso_rng),
                      "Shutter speeds: " \o ListStr(shutter_rng) >>
              /\ files' = files \cup {path_join(path, "params.txt")}
              /\ calls' = calls \o
                   << Call("get_exposure_mode", 0, camera.exposure_mode,
                           NoGains, TRUE),
                      Call("get_awb_mode", 0, camera.awb_mode, NoGains, TRUE),
                      Call("write_manifest", 0,
                           path_join(path, "params.txt"), NoGains, TRUE) >>
              /\ pc' = "exit_with"
              /\ UNCHANGED <<config, name, path, camera, g, idx, p>>
         ELSE RaiseInside(<<Call("write_manifest", 0,
                                 path_join(path, "params.txt"), NoGains,
                                 FALSE)>>)

\* leaving the with block: PiCamera.__exit__ closes the camera
ExitWith ==
    /\ pc = "exit_with"
    /\ Returns(Call("close", 0, "", NoGains, TRUE),
               [camera EXCEPT !.open = FALSE], "done")
    /\ UNCHANGED <<config, name, path, g, idx, p, files, params_file>>

Next ==
    \/ ParseArgs
    \/ MakeDirs
    \/ OpenCamera
    \/ StartPreview
    \/ CalSetIso
    \/ CalSleep
    \/ CalSetShutter
    \/ CalExposureOff
    \/ CalReadGains
    \/ CalAwbOff
    \/ CalSetGains
    \/ LoopHead
    \/ LoopSetIso
    \/ LoopSetShutter
    \/ LoopCapture
    \/ StopPreview
    \/ WriteManifest
    \/ ExitWith

Spec == Init /\ [][Next]_vars

\* ------------------------------------------------- derived observations
Range(s) == {s[k] : k \in DOMAIN s}

NumPairs == Len(iso_rng) * Len(shutter_rng)

\* the k-th pair, ISO-major and shutter-minor, by list position
PairAt(k) ==
    << iso_rng[((k - 1) \div Len(shutter_rng)) + 1],
       shutter_rng[((k - 1) % Len(shutter_rng)) + 1] >>

\* the file the session is to write for a pair: path/{name}-{iso}-{shutter}.jpg
ClaimedPath(pair) ==
    path \o "/" \o name \o "-" \o IntStr(pair[1]) \o "-" \o IntStr(pair[2])
         \o ".jpg"

ManifestPath == path \o "/params.txt"

ImageFiles == files \ {ManifestPath}

IsCapture(c) == c.op = "capture"

Captures == SelectSeq(calls, IsCapture)

CallPositions(op) == {k \in DOMAIN calls : calls[k].op = op}

\* a capture call has raised
CaptureFailed == \E k \in DOMAIN calls : calls[k].op = "capture" /\ ~calls[k].ok

NoRepeats(s) == \A j, k \in DOMAIN s : s[j] = s[k] => j = k

\* C1: after a failure-free session the image files written are exactly
\* path/{name}-{iso}-{shutter}.jpg for the pairs of the product of the two
\* lists: none is missing and there is no other image file.
C1_FilenamesAreProduct ==
    pc = "done" =>
      ImageFiles = {ClaimedPath(<<i, s>>) :
                      i \in Range(iso_rng), s \in Range(shutter_rng)}

C1_Witness ==
    /\ pc = "done"
    /\ Len(iso_rng) = 2 /\ Len(shutter_rng) = 2
    /\ Cardinality(ImageFiles) = 4

\* C2 as stated: a failure-free session leaves |I| x |S| image files and no
\* capture writes to the file of another capture.
C2_Original ==
    /\ pc = "done" => Cardinality(ImageFiles) = NumPairs
    /\ \A j, k \in DOMAIN calls :
         (calls[j].op = "capture" /\ calls[k].op = "capture" /\ j # k)
           => calls[j].str # calls[k].str

\* C2 amended: a failure-free session leaves one image file per distinct
\* pair, which is |I| x |S| files when neither list repeats a value, and
\* captures of different pairs never write to the same file.
C2_OneFilePerDistinctPair ==
    /\ pc = "done" =>
         /\ Cardinality(ImageFiles) =
              Cardinality(Range(iso_rng) \X Range(shutter_rng))
         /\ (NoRepeats(iso_rng) /\ NoRepeats(shutter_rng))
              => Cardinality(ImageFiles) = NumPairs
    /\ \A j, k \in DOMAIN Captures :
         PairAt(j) # PairAt(k) => Captures[j].str # Captures[k].str

C2_Witness ==
    /\ pc = "done"
    /\ iso_rng = <<100, 1002>> /\ shutter_rng = <<21000, 1000>>
    /\ Cardinality(ImageFiles) = 4

\* C3: the captures happen in ISO-major, shutter-minor list order: the k-th
\* capture is the one of the k-th pair by list position, and for
\* I=[100,200], S=[1000,2000] the order is (100,1000), (100,2000),
\* (200,1000), (200,2000).
C3_IsoMajorOrder ==
    /\ \A k \in DOMAIN Captures :
         k <= NumPairs /\ Captures[k].str = ClaimedPath(PairAt(k))
    /\ pc \in {"loop_iso", "loop_shutter", "loop_capture"} =>
         /\ p = PairAt(idx + 1)
         /\ Len(Captures) = idx
    /\ (pc = "done" /\ name = "raw" /\ iso_rng = <<100, 200>>
          /\ shutter_rng = <<1000, 2000>>) =>
         [k \in 1..4 |-> Captures[k].str] =
           << path \o "/raw-100-1000.jpg", path \o "/raw-100-2000.jpg",
              path \o "/raw-200-1000.jpg", path \o "/raw-200-2000.jpg" >>

C3_Witness ==
    /\ pc = "done"
    /\ name = "raw"
    /\ iso_rng = <<100, 200>> /\ shutter_rng = <<1000, 2000>>
    /\ Len(Captures) = 4

\* the seven calibration steps, given the gain pair the read returned
CalibrationCalls(gv) ==
    << Call("iso", iso_rng[1], "", NoGains, TRUE),
       Call("sleep", 2, "", NoGains, TRUE),
       Call("shutter_speed", shutter_rng[1], "", NoGains, TRUE),
       Call("exposure_mode", 0, "off", NoGains, TRUE),
       Call("get_awb_gains", 0, "", gv, TRUE),
       Call("awb_mode", 0, "off", NoGains, TRUE),
       Call("awb_gains", 0, "", gv, TRUE) >>

PostCalibration ==
    pc \in {"loop", "loop_iso", "loop_shutter", "loop_capture",
            "stop_preview", "manifest", "exit_with", "done"}

\* C4: the calibration calls come in one fixed order, all before the first
\* capture: ISO, the 2 second pause, shutter speed, exposure mode off, read
\* of the gains, AWB mode off, write of the gains that were read, with
\* nothing between the AWB lock and the gain write.
C4_CalibrationOrder ==
    /\ (PostCalibration \/ CallPositions("capture") # {}) =>
         /\ Len(calls) >= 9
         /\ SubSeq(calls, 3, 9) = CalibrationCalls(calls[7].gains)
    /\ \A k \in CallPositions("capture") : k > 9
    /\ \A k \in CallPositions("awb_mode") :
         (calls[k].ok /\ k < Len(calls)) =>
           calls[k + 1].op = "awb_gains"

C4_Witness ==
    /\ pc = "loop_capture"
    /\ camera.awb_gains = g
    /\ \E k \in CallPositions("get_awb_gains") : calls[k].gains = g

\* C5 as stated: when the capture of pair k raises, nothing more is
\* attempted and exactly k-1 image files are on disk.
C5_Original ==
    CaptureFailed =>
      /\ pc = "aborted"
      /\ Cardinality(ImageFiles) = Len(Captures) - 1

\* C5 amended: when the capture of pair k raises, the session ends there
\* (the failed call is followed only by the release of the camera) and
\* the image files on disk are exactly those of pairs 1..k-1, which are
\* k-1 files when neither list repeats a value.
C5_AbortKeepsEarlierFiles ==
    \A j \in DOMAIN calls :
      (calls[j].op = "capture" /\ ~calls[j].ok) =>
        /\ pc = "aborted"
        /\ Len(calls) = j + 1 /\ calls[j + 1].op = "close"
        /\ calls[j].str = ClaimedPath(PairAt(Len(Captures)))
        /\ ImageFiles = {ClaimedPath(PairAt(k)) : k \in 1..(Len(Captures) - 1)}
        /\ (NoRepeats(iso_rng) /\ NoRepeats(shutter_rng))
             => Cardinality(ImageFiles) = Len(Captures) - 1

C5_Witness ==
    /\ CaptureFailed
    /\ Len(Captures) = 3
    /\ Cardinality(ImageFiles) = 2

\* C6: the camera is opened once and closed once on every exit path: when
\* the session has ended, by completion or by a failure after the open,
\* the camera has been released, and the release is the last call made.
C6_OpenedOnceClosedOnce ==
    /\ Cardinality(CallPositions("open")) <= 1
    /\ Cardinality(CallPositions("close")) <= 1
    /\ calls # <<>> => calls[1].op = "open"
    /\ \A k \in CallPositions("close") : k = Len(calls)
    /\ camera.open <=>
         (CallPositions("open") # {} /\ CallPositions("close") = {})
    /\ (pc \in {"done", "aborted"} /\ CallPositions("open") # {}) =>
         /\ Cardinality(CallPositions("close")) = 1
         /\ ~camera.open

C6_Witness ==
    /\ pc = "aborted"
    /\ CaptureFailed
    /\ files # {}
    /\ ~camera.open
    /\ calls[Len(calls)].op = "close"

\* C7 as stated: the manifest is written only after the camera has been
\* released.
C7_Original ==
    \A k \in CallPositions("write_manifest") :
      \E c \in CallPositions("close") : c < k

\* C7 amended: at the end of a failure-free session the last capture is
\* followed by the stop of the preview, then the manifest is written while
\* the camera is still open, and the camera is released last.
C7_ManifestBeforeRelease ==
    /\ \A k \in CallPositions("write_manifest") :
         /\ \A c \in CallPositions("close") : k < c
         /\ \E s \in CallPositions("stop_preview") :
              /\ s < k
              /\ \A n \in CallPositions("capture") : n < s
    /\ pc = "exit_with" => (camera.open /\ params_file # <<>>)
    /\ pc = "done" =>
         /\ CallPositions("write_manifest") = {Len(calls) - 1}
         /\ CallPositions("close") = {Len(calls)}
         /\ CallPositions("stop_preview") = {Len(calls) - 4}

C7_Witness ==
    /\ pc = "done"
    /\ NumPairs = 4
    /\ params_file # <<>>
    /\ ~camera.open

\* C8: the manifest is written once in a failure-free session and never
\* before every pair has been captured; a session that aborts during
\* calibration or in the loop leaves no manifest.
C8_ManifestAfterAllCaptures ==
    /\ Cardinality(CallPositions("write_manifest")) <= 1
    /\ (params_file # <<>> \/ ManifestPath \in files) =>
         /\ Len(Captures) = NumPairs
         /\ \A k \in DOMAIN Captures : Captures[k].ok
         /\ \E k \in CallPositions("write_manifest") : calls[k].ok
    /\ pc = "done" =>
         /\ \E k \in CallPositions("write_manifest") : calls[k].ok
         /\ ManifestPath \in files
         /\ Len(params_file) = 5

C8_Witness ==
    /\ pc = "done"
    /\ NumPairs = 4
    /\ ManifestPath \in files

\* C9: after calibration nothing writes exposure mode, AWB mode or AWB
\* gains again: they stay 'off', 'off' and the gains read before the AWB
\* lock, the loop writes only ISO and shutter speed, and the manifest
\* records those values and the two lists in their order.
C9_CalibrationStaysLocked ==
    /\ \A k \in DOMAIN calls :
         k > 9 => calls[k].op \notin {"exposure_mode", "awb_mode",
                                      "awb_gains", "get_awb_gains", "sleep"}
    /\ (PostCalibration /\ camera.open) =>
         /\ camera.exposure_mode = "off"
         /\ camera.awb_mode = "off"
         /\ camera.awb_gains = calls[7].gains
         /\ g = calls[7].gains
    /\ pc \in {"loop", "loop_iso", "loop_shutter", "loop_capture"} =>
         \A k \in DOMAIN calls :
           k > 9 => calls[k].op \in {"iso", "shutter_speed", "capture"}
    /\ params_file # <<>> =>
         /\ params_file =
              << "Exposure mode: off", "AWB mode: off",
                 "Gains: " \o GainsStr(calls[7].gains),
                 "ISOs: " \o ListStr(iso_rng),
                 "Shutter speeds: " \o ListStr(shutter_rng) >>
         /\ calls[7].gains = << <<3, 2>>, <<7, 4>> >> =>
              params_file[3] = "Gains: (Fraction(3, 2), Fraction(7, 4))"
         /\ iso_rng = <<200, 100>> => params_file[4] = "ISOs: [200, 100]"
         /\ shutter_rng = <<2000, 1000>> =>
              params_file[5] = "Shutter speeds: [2000, 1000]"

C9_Witness ==
    /\ pc = "done"
    /\ iso_rng = <<200, 100>> /\ shutter_rng = <<2000, 1000>>
    /\ g = << <<3, 2>>, <<7, 4>> >>
    /\ Len(params_file) = 5

\* C10: at every capture the ISO and shutter speed last written to the
\* camera are the ones in the destination filename: each iteration writes
\* ISO, then shutter speed, then captures, with no call in between, the
\* first iteration included.
C10_CaptureUsesWrittenSettings ==
    /\ \A k \in CallPositions("capture") :
         /\ k > 11
         /\ calls[k - 2].op = "iso" /\ calls[k - 2].ok
         /\ calls[k - 1].op = "shutter_speed" /\ calls[k - 1].ok
         /\ calls[k].str = ClaimedPath(<<calls[k - 2].val, calls[k - 1].val>>)
    /\ pc = "loop_capture" =>
         /\ camera.iso = p[1]
         /\ camera.shutter_speed = p[2]
    /\ Len(Captures) >= 1 =>
         /\ calls[12].op = "capture"
         /\ calls[10] = Call("iso", iso_rng[1], "", NoGains, TRUE)
         /\ calls[11] = Call("shutter_speed", shutter_rng[1], "", NoGains, TRUE)

C10_Witness ==
    /\ pc = "loop"
    /\ Len(Captures) = 3
    /\ camera.iso = 200 /\ camera.shutter_speed = 1000
    /\ iso_rng = <<100, 200>>
====
